---- MODULE Spec2Model ----
(***************************************************************************)
(* Model of the actr-ts binding (src/src/runtime.rs, workload.rs,          *)
(* context.rs): the System -> Node -> Ref lifecycle chain, the workload    *)
(* adapter and dispatcher, context derivation, stream callbacks and the    *)
(* shutdown surface of the Ref.                                            *)
(*                                                                         *)
(* The module holds several specifications over one set of variables;     *)
(* each specification moves only its own group of variables.               *)
(***************************************************************************)
EXTENDS Integers, Sequences, FiniteSets, TLC

(***************************************************************************)
(* Bounds of the model.                                                    *)
(***************************************************************************)
MaxAttach == 3
MaxStart == 3
MaxOps == 2
MaxStreamEvents == 4
WordBits == 3
MaxShutdown == 2
MaxWaiters == 2
MaxRefOps == 2

\* The calls the host makes in a run of the whole chain.
MaxChainOps == 5

\* The from_file calls made in one process.
MaxFromFile == 3

(***************************************************************************)
(* State.                                                                  *)
(***************************************************************************)
VARIABLES
    sysInner,      \* ActrSystem.inner : "Some" | "None"
    attachLog,     \* the attach calls made so far, in order, with their results
    nodeInner,     \* ActrNode.inner : "Absent" (no Node object yet) | "Some" | "None"
    startCall,     \* the futures spawned by ActrNode::start, by order of issue
    hostObj,       \* the host object handed to DynamicWorkload::new
    newResult,     \* "pending" | "Ok" | "Err": the outcome of DynamicWorkload::new
    adapter,       \* "NoAdapter" | "Adapter": the DynamicWorkload, once built
    invoked,       \* how often the host ran each of its three entry points
    hostQueue,     \* calls handed to the host's queue through the threadsafe functions
    lifeLog,       \* the on_start / on_stop calls the runtime has made, with results
    disp,          \* the dispatch calls the runtime has made, by order of issue
    registry,      \* the runtime's stream handlers: stream id -> handler (0: none)
    streamOps,     \* the register_stream / unregister_stream calls, by order of issue
    chunks,        \* the DataStream chunks peers have sent to this actor
    cbQueue,       \* stream callbacks handed to the host's queue
    cbCalls,       \* the stream callbacks the host has run, in order
    shutdownSignal, \* the runtime's shutdown signal of the running node
    drained,       \* whether the node's drain has completed
    shutdownCalls, \* how many times the host has called shutdown() on the Ref
    waiter,        \* the futures spawned by ActrRef::wait_for_shutdown
    refOps,        \* how many other Ref operations the host has made
    lastOp,        \* the latest of them, with its outcome
    lastSnap,      \* the latest is_shutting_down() snapshot the host took
    obsInit,       \* whether the process-global tracing subscriber has been set
    fromFileLog,   \* the ActrSystem::from_file calls made so far, with their results
    conv           \* a value crossing the boundary: input, converted, converted back

lifeVars == <<sysInner, attachLog, nodeInner, startCall>>

wlVars == <<hostObj, newResult, adapter, invoked, hostQueue, lifeLog, disp>>

streamVars == <<registry, streamOps, chunks, cbQueue, cbCalls>>

refVars == <<shutdownSignal, drained, shutdownCalls, waiter, refOps, lastOp, lastSnap>>

auxVars == <<obsInit, fromFileLog, conv>>

vars == <<sysInner, attachLog, nodeInner, startCall,
          hostObj, newResult, adapter, invoked, hostQueue, lifeLog, disp,
          registry, streamOps, chunks, cbQueue, cbCalls,
          shutdownSignal, drained, shutdownCalls, waiter, refOps, lastOp, lastSnap,
          obsInit, fromFileLog, conv>>

(***************************************************************************)
(* Host workload objects: each of the three properties is missing, present *)
(* but not a function, or a function.                                      *)
(***************************************************************************)
PropKinds == {"missing", "notCallable", "callable"}

EntryPoints == <<"onStart", "onStop", "dispatch">>

HostObjects == [onStart : PropKinds, onStop : PropKinds, dispatch : PropKinds]

\* callback.get_named_property::<Function>(name): Ok only for a function.
GetNamedProperty(obj, name) == obj[name] = "callable"

\* Mutant of DynamicWorkloadNew: the dispatch property is not looked up.
DynamicWorkloadNewNoDispatchCheck(obj) ==
    IF ~GetNamedProperty(obj, "onStart") THEN [ok |-> FALSE, err |-> "onStart"]
    ELSE IF ~GetNamedProperty(obj, "onStop") THEN [ok |-> FALSE, err |-> "onStop"]
    ELSE [ok |-> TRUE, err |-> "none"]

\* DynamicWorkload::new: the three lookups in order, each returning early
\* on failure; the threadsafe functions are built only after all three.
DynamicWorkloadNew(obj) ==
    IF ~GetNamedProperty(obj, "onStart") THEN [ok |-> FALSE, err |-> "onStart"]
    ELSE IF ~GetNamedProperty(obj, "onStop") THEN [ok |-> FALSE, err |-> "onStop"]
    ELSE IF ~GetNamedProperty(obj, "dispatch") THEN [ok |-> FALSE, err |-> "dispatch"]
    ELSE [ok |-> TRUE, err |-> "none"]

Complete(obj) == \A i \in 1..3 : obj[EntryPoints[i]] = "callable"

(***************************************************************************)
(* Workload adapter, context derivation and dispatcher.                    *)
(***************************************************************************)
DispatchIds == 1..MaxOps

\* The implementations of actr_framework::Context a caller can pass.
CtxTypes == {"RuntimeContext", "OtherContext"}

ByteStrings == {<<>>, <<7>>}

Texts == {"boom", "oops"}

\* An Option<Bytes> payload of an inbound actr_protocol::RpcEnvelope.
Payloads == {[some |-> FALSE, bytes |-> <<>>]} \cup
            {[some |-> TRUE, bytes |-> b] : b \in ByteStrings}

RouteKeys == {"echo"}

RequestIds == [d \in DispatchIds |-> <<"req", d>>]

NoResult == [kind |-> "none", variant |-> "none", bytes |-> <<>>, msg |-> <<>>]

OkResult(b) == [kind |-> "ok", variant |-> "none", bytes |-> b, msg |-> <<>>]

\* An actr_protocol::ProtocolError of the given variant and message.
ProtocolError(variant, text) ==
    [kind |-> "err", variant |-> variant, bytes |-> <<>>, msg |-> <<variant>> \o text]

\* napi::Error's to_string(): the status, then the reason.
ErrorToString(e) == <<e.status, e.reason>>

\* Mutant of SerializationError: the failure's text is replaced by a fixed one.
SerializationErrorNoText(e) == ProtocolError("SerializationError", <<"dispatch failed">>)

\* map_err(|e| ProtocolError::SerializationError(e.to_string()))
SerializationError(e) == ProtocolError("SerializationError", ErrorToString(e))

\* Mutant of TryFromContext: the identity check is skipped.
TryFromContextNoCheck(ctx) == [ok |-> TRUE, cast |-> TRUE, err |-> NoResult]

\* ContextBridge::try_from_context: the TypeId comparison first, with an
\* early return of InvalidStateTransition; the pointer cast and the clone
\* only on the path past it.
TryFromContext(ctx) ==
    IF ctx # "RuntimeContext"
    THEN [ok |-> FALSE, cast |-> FALSE,
          err |-> ProtocolError("InvalidStateTransition",
                                <<"Context type mismatch: expected RuntimeContext, got", ctx>>)]
    ELSE [ok |-> TRUE, cast |-> TRUE, err |-> NoResult]

\* Mutant of RpcEnvelopeBridgeFrom: the payload is not carried over.
RpcEnvelopeBridgeFromNoPayload(env) ==
    [routeKey |-> env.route_key,
     payload |-> <<>>,
     requestId |-> env.request_id]

\* From<actr_protocol::RpcEnvelope> for RpcEnvelopeBridge.
RpcEnvelopeBridgeFrom(env) ==
    [routeKey |-> env.route_key,
     payload |-> IF env.payload.some THEN env.payload.bytes ELSE <<>>,
     requestId |-> env.request_id]

NoEnvelope == [routeKey |-> "none", payload |-> <<>>, requestId |-> <<>>]

\* No actr_protocol::RpcEnvelope received yet.
NoInbound ==
    [route_key |-> "none", payload |-> [some |-> FALSE, bytes |-> <<>>], request_id |-> <<>>]

NoPromise == [state |-> "none", bytes |-> <<>>, error |-> [status |-> "none", reason |-> "none"]]

IdleDispatch ==
    [pc |-> "idle", ctx |-> "none", cast |-> FALSE, inbound |-> NoInbound, env |-> NoEnvelope,
     hostEnv |-> NoEnvelope, promise |-> NoPromise, callError |-> NoPromise.error,
     result |-> NoResult]

\* The lifecycle and dispatch calls the runtime has made so far.
OpsMade == Len(lifeLog) + Cardinality({d \in DispatchIds : disp[d].pc # "idle"})

NoHostObject == [onStart |-> "none", onStop |-> "none", dispatch |-> "none"]

InitWorkloadVars ==
    /\ hostObj = NoHostObject
    /\ newResult = "pending"
    /\ adapter = "NoAdapter"
    /\ invoked = [onStart |-> 0, onStop |-> 0, dispatch |-> 0]
    /\ hostQueue = <<>>
    /\ lifeLog = <<>>
    /\ disp = [d \in DispatchIds |-> IdleDispatch]

\* DynamicWorkload::new(callback), on the host thread: one step. No host
\* function is called; the three handles exist only on success.
New(obj) ==
    /\ newResult = "pending"
    /\ LET r == DynamicWorkloadNew(obj) IN
        /\ hostObj' = obj
        /\ newResult' = IF r.ok THEN "Ok" ELSE "Err"
        /\ adapter' = IF r.ok THEN "Adapter" ELSE "NoAdapter"
    /\ UNCHANGED <<invoked, hostQueue, lifeLog, disp, lifeVars, streamVars, refVars, auxVars>>

\* Mutant of Lifecycle: a failed derivation does not stop the call, the
\* host invocation is queued all the same.
LifecycleNoShortCircuit(kind, ctx, delivered) ==
    /\ adapter = "Adapter"
    /\ OpsMade < MaxOps
    /\ LET r == TryFromContext(ctx) IN
        /\ lifeLog' = Append(lifeLog, [kind |-> kind, ctx |-> ctx, cast |-> r.cast,
                                       delivered |-> r.ok /\ delivered,
                                       result |-> IF r.ok THEN OkResult(<<>>) ELSE r.err])
        /\ hostQueue' = IF delivered \/ ~r.ok
                        THEN Append(hostQueue, [fn |-> kind, id |-> Len(lifeLog) + 1])
                        ELSE hostQueue
    /\ UNCHANGED <<hostObj, newResult, adapter, invoked, disp, lifeVars, streamVars, refVars, auxVars>>

\* Workload::on_start / on_stop: derive the context (returning its error),
\* call the handle in Blocking mode, whose status (delivered to the queue
\* or not) is discarded, and return Ok(()).
Lifecycle(kind, ctx, delivered) ==
    /\ adapter = "Adapter"
    /\ OpsMade < MaxOps
    /\ LET r == TryFromContext(ctx) IN
        IF ~r.ok
        THEN /\ lifeLog' = Append(lifeLog, [kind |-> kind, ctx |-> ctx, cast |-> r.cast,
                                            delivered |-> FALSE, result |-> r.err])
             /\ UNCHANGED hostQueue
        ELSE /\ lifeLog' = Append(lifeLog, [kind |-> kind, ctx |-> ctx, cast |-> r.cast,
                                            delivered |-> delivered, result |-> OkResult(<<>>)])
             /\ hostQueue' = IF delivered
                             THEN Append(hostQueue, [fn |-> kind, id |-> Len(lifeLog) + 1])
                             ELSE hostQueue
    /\ UNCHANGED <<hostObj, newResult, adapter, invoked, disp, lifeVars, streamVars, refVars, auxVars>>

\* MessageDispatcher::dispatch up to its first await: derive the context
\* (returning its error), convert the envelope, and call_async, which puts
\* the call on the host's queue.
DispatchBegin(d, ctx, payload, rk) ==
    /\ adapter = "Adapter"
    /\ OpsMade < MaxOps
    /\ disp[d].pc = "idle"
    /\ \A b \in DispatchIds : b < d => disp[b].pc # "idle"
    /\ LET r == TryFromContext(ctx)
           env == [route_key |-> rk, payload |-> payload, request_id |-> RequestIds[d]] IN
        IF ~r.ok
        THEN /\ disp' = [disp EXCEPT ![d].pc = "done", ![d].ctx = ctx, ![d].cast = r.cast,
                                     ![d].inbound = env, ![d].result = r.err]
             /\ UNCHANGED hostQueue
        ELSE /\ disp' = [disp EXCEPT ![d].pc = "queued", ![d].ctx = ctx, ![d].cast = r.cast,
                                     ![d].inbound = env,
                                     ![d].env = RpcEnvelopeBridgeFrom(env)]
             /\ hostQueue' = Append(hostQueue, [fn |-> "dispatch", id |-> d])
    /\ UNCHANGED <<hostObj, newResult, adapter, invoked, lifeLog, lifeVars, streamVars, refVars, auxVars>>

\* call_async fails to reach the host (the handle is closing): the await of
\* the call returns the error and the call never runs.
DispatchNotScheduled(d, text) ==
    /\ disp[d].pc = "queued"
    /\ \E i \in 1..Len(hostQueue) :
        /\ hostQueue[i] = [fn |-> "dispatch", id |-> d]
        /\ hostQueue' = SubSeq(hostQueue, 1, i - 1) \o SubSeq(hostQueue, i + 1, Len(hostQueue))
    /\ disp' = [disp EXCEPT ![d].pc = "callFailed",
                            ![d].callError = [status |-> "Closing", reason |-> text]]
    /\ UNCHANGED <<hostObj, newResult, adapter, invoked, lifeLog, lifeVars, streamVars, refVars, auxVars>>

\* The host thread runs the head of its queue: onStart or onStop.
HostRunLifecycle ==
    /\ hostQueue # <<>>
    /\ Head(hostQueue).fn # "dispatch"
    /\ invoked' = [invoked EXCEPT ![Head(hostQueue).fn] = @ + 1]
    /\ hostQueue' = Tail(hostQueue)
    /\ UNCHANGED <<hostObj, newResult, adapter, lifeLog, disp, lifeVars, streamVars, refVars, auxVars>>

\* Mutant of HostRunDispatch: the host's dispatch is not entered while the
\* promise of another dispatch is unsettled.
HostRunDispatchSerialized ==
    /\ hostQueue # <<>>
    /\ Head(hostQueue).fn = "dispatch"
    /\ \A e \in DispatchIds : disp[e].promise.state # "pending"
    /\ LET d == Head(hostQueue).id IN
        disp' = [disp EXCEPT ![d].pc = "promised", ![d].hostEnv = disp[d].env,
                             ![d].promise = [NoPromise EXCEPT !.state = "pending"]]
    /\ invoked' = [invoked EXCEPT !.dispatch = @ + 1]
    /\ hostQueue' = Tail(hostQueue)
    /\ UNCHANGED <<hostObj, newResult, adapter, lifeLog, lifeVars, streamVars, refVars, auxVars>>

\* The host thread runs the head of its queue: dispatch, with the envelope
\* object built by the dispatch callback; the host returns its promise.
HostRunDispatch ==
    /\ hostQueue # <<>>
    /\ Head(hostQueue).fn = "dispatch"
    /\ LET d == Head(hostQueue).id IN
        disp' = [disp EXCEPT ![d].pc = "promised", ![d].hostEnv = disp[d].env,
                             ![d].promise = [NoPromise EXCEPT !.state = "pending"]]
    /\ invoked' = [invoked EXCEPT !.dispatch = @ + 1]
    /\ hostQueue' = Tail(hostQueue)
    /\ UNCHANGED <<hostObj, newResult, adapter, lifeLog, lifeVars, streamVars, refVars, auxVars>>

\* As HostRunDispatch, but the host's dispatch throws instead of returning
\* a promise: the await of the call returns the error.
HostRunDispatchThrows(text) ==
    /\ hostQueue # <<>>
    /\ Head(hostQueue).fn = "dispatch"
    /\ LET d == Head(hostQueue).id IN
        disp' = [disp EXCEPT ![d].pc = "callFailed", ![d].hostEnv = disp[d].env,
                             ![d].callError = [status |-> "GenericFailure", reason |-> text]]
    /\ invoked' = [invoked EXCEPT !.dispatch = @ + 1]
    /\ hostQueue' = Tail(hostQueue)
    /\ UNCHANGED <<hostObj, newResult, adapter, lifeLog, lifeVars, streamVars, refVars, auxVars>>

\* The host settles the promise of dispatch d: resolved with bytes.
PromiseResolve(d, b) ==
    /\ disp[d].promise.state = "pending"
    /\ disp' = [disp EXCEPT ![d].promise = [NoPromise EXCEPT !.state = "resolved", !.bytes = b]]
    /\ UNCHANGED <<hostObj, newResult, adapter, invoked, hostQueue, lifeLog, lifeVars, streamVars, refVars, auxVars>>

\* The host settles the promise of dispatch d: rejected with a reason.
PromiseReject(d, text) ==
    /\ disp[d].promise.state = "pending"
    /\ disp' = [disp EXCEPT ![d].promise =
            [NoPromise EXCEPT !.state = "rejected",
                              !.error = [status |-> "GenericFailure", reason |-> text]]]
    /\ UNCHANGED <<hostObj, newResult, adapter, invoked, hostQueue, lifeLog, lifeVars, streamVars, refVars, auxVars>>

\* Mutant of DispatchOutcome: a rejected promise yields an empty success.
DispatchOutcomeSwallow(callFailed, callError, promise) ==
    IF callFailed THEN SerializationError(callError)
    ELSE IF promise.state = "rejected" THEN OkResult(<<>>)
    ELSE OkResult(promise.bytes)

\* The two map_err(..)? of dispatch and its final Ok(Bytes::from(..)).
DispatchOutcome(callFailed, callError, promise) ==
    IF callFailed THEN SerializationError(callError)
    ELSE IF promise.state = "rejected" THEN SerializationError(promise.error)
    ELSE OkResult(promise.bytes)

\* The native task of dispatch d resumes from its await and returns.
DispatchResume(d) ==
    /\ \/ disp[d].pc = "callFailed"
       \/ disp[d].pc = "promised" /\ disp[d].promise.state \in {"resolved", "rejected"}
    /\ disp' = [disp EXCEPT ![d].pc = "done",
            ![d].result = DispatchOutcome(disp[d].pc = "callFailed", disp[d].callError,
                                          disp[d].promise)]
    /\ UNCHANGED <<hostObj, newResult, adapter, invoked, hostQueue, lifeLog, lifeVars, streamVars, refVars, auxVars>>


(***************************************************************************)
(* Identifier and payload model: the conversions of types.rs. A 64-bit     *)
(* word is modelled by a word of WordBits bits.                            *)
(***************************************************************************)
Modulus == 2 ^ WordBits

\* Mutant of AsSigned: a conversion that saturates at the largest signed value.
AsSignedSaturating(n) == IF n >= Modulus \div 2 THEN Modulus \div 2 - 1 ELSE n

\* `n as i64` of an unsigned word: reinterpretation of the same bits.
AsSigned(n) == IF n >= Modulus \div 2 THEN n - Modulus ELSE n

\* `v as u64` of a signed word: reinterpretation of the same bits.
AsUnsigned(v) == IF v < 0 THEN v + Modulus ELSE v

\* From<actr_protocol::Realm> for Realm.
RealmFrom(realm) == [realmId |-> realm.realm_id]

\* From<actr_protocol::ActrType> for ActrType.
ActrTypeFrom(t) == [manufacturer |-> t.manufacturer, name |-> t.name]

\* Mutant of ActrIdFrom: the serial number is clamped to the signed range.
ActrIdFromClamped(id) ==
    [realm |-> RealmFrom(id.realm),
     serialNumber |-> IF id.serial_number >= Modulus \div 2
                      THEN Modulus \div 2 - 1 ELSE id.serial_number,
     type |-> ActrTypeFrom(id.type)]

\* From<actr_protocol::ActrId> for ActrId.
ActrIdFrom(id) ==
    [realm |-> RealmFrom(id.realm),
     serialNumber |-> AsSigned(id.serial_number),
     type |-> ActrTypeFrom(id.type)]

\* From<actr_protocol::DataStream> for DataStream.
DataStreamFrom(stream) ==
    [streamId |-> stream.stream_id,
     sequence |-> AsSigned(stream.sequence),
     payload |-> stream.payload,
     metadata |-> [i \in 1..Len(stream.metadata) |->
                      [key |-> stream.metadata[i].key, value |-> stream.metadata[i].value]],
     timestampMs |-> stream.timestamp_ms]

\* From<Realm> for actr_protocol::Realm.
RealmInto(realm) == [realm_id |-> realm.realmId]

\* From<ActrType> for actr_protocol::ActrType.
ActrTypeInto(t) == [manufacturer |-> t.manufacturer, name |-> t.name]

\* Mutant of ActrIdInto: the realm is not carried over.
ActrIdIntoDefaultRealm(id) ==
    [realm |-> [realm_id |-> 0],
     serial_number |-> AsUnsigned(id.serialNumber),
     type |-> ActrTypeInto(id.type)]

\* From<ActrId> for actr_protocol::ActrId.
ActrIdInto(id) ==
    [realm |-> RealmInto(id.realm),
     serial_number |-> AsUnsigned(id.serialNumber),
     type |-> ActrTypeInto(id.type)]

\* From<DataStream> for actr_protocol::DataStream.
DataStreamInto(stream) ==
    [stream_id |-> stream.streamId,
     sequence |-> AsUnsigned(stream.sequence),
     payload |-> stream.payload,
     metadata |-> [i \in 1..Len(stream.metadata) |->
                      [key |-> stream.metadata[i].key, value |-> stream.metadata[i].value]],
     timestamp_ms |-> stream.timestampMs]

\* The largest value of the signed word.
MaxSigned == Modulus \div 2 - 1

UnsignedWords == 0..(Modulus - 1)

SignedWords == (0 - Modulus \div 2)..MaxSigned

RealmIds == {0, 7}

TypePairs == {[manufacturer |-> "acme", name |-> "echo"], [manufacturer |-> "", name |-> "relay"]}

NativeActrIds ==
    {[realm |-> [realm_id |-> r], serial_number |-> n, type |-> t] :
        r \in RealmIds, n \in UnsignedWords, t \in TypePairs}

BoundaryActrIds ==
    {[realm |-> [realmId |-> r], serialNumber |-> v, type |-> t] :
        r \in RealmIds, v \in SignedWords, t \in TypePairs}

MetadataLists ==
    {<<>>, <<[key |-> "k", value |-> "v"], [key |-> "k", value |-> "w"]>>}

Timestamps == {[some |-> FALSE, value |-> 0], [some |-> TRUE, value |-> 0 - 1]}

NativeDataStreams ==
    {[stream_id |-> "s1", sequence |-> n, payload |-> b, metadata |-> m, timestamp_ms |-> t] :
        n \in UnsignedWords, b \in ByteStrings, m \in MetadataLists, t \in Timestamps}

BoundaryDataStreams ==
    {[streamId |-> "s1", sequence |-> v, payload |-> b, metadata |-> m, timestampMs |-> t] :
        v \in SignedWords, b \in ByteStrings, m \in MetadataLists, t \in Timestamps}

ConvKinds == {"ActrIdNative", "ActrIdBoundary", "DataStreamNative", "DataStreamBoundary"}

ConvInputs(kind) ==
    CASE kind = "ActrIdNative" -> NativeActrIds
      [] kind = "ActrIdBoundary" -> BoundaryActrIds
      [] kind = "DataStreamNative" -> NativeDataStreams
      [] kind = "DataStreamBoundary" -> BoundaryDataStreams

\* The conversion that takes a value of the given kind across the boundary.
ConvForth(kind, v) ==
    CASE kind = "ActrIdNative" -> ActrIdFrom(v)
      [] kind = "ActrIdBoundary" -> ActrIdInto(v)
      [] kind = "DataStreamNative" -> DataStreamFrom(v)
      [] kind = "DataStreamBoundary" -> DataStreamInto(v)

\* The conversion that takes it back.
ConvBack(kind, v) ==
    CASE kind = "ActrIdNative" -> ActrIdInto(v)
      [] kind = "ActrIdBoundary" -> ActrIdFrom(v)
      [] kind = "DataStreamNative" -> DataStreamInto(v)
      [] kind = "DataStreamBoundary" -> DataStreamFrom(v)

NoValue == [none |-> TRUE]

NoConv == [pc |-> "idle", kind |-> "none", in |-> NoValue, mid |-> NoValue, out |-> NoValue]

\* A value is handed to the boundary.
ConvertInput(kind, v) ==
    /\ conv.pc = "idle"
    /\ conv' = [conv EXCEPT !.pc = "input", !.kind = kind, !.in = v]
    /\ UNCHANGED <<obsInit, fromFileLog, lifeVars, wlVars, streamVars, refVars>>

\* It is converted to the other side's representation.
ConvertForth ==
    /\ conv.pc = "input"
    /\ conv' = [conv EXCEPT !.pc = "mid", !.mid = ConvForth(conv.kind, conv.in)]
    /\ UNCHANGED <<obsInit, fromFileLog, lifeVars, wlVars, streamVars, refVars>>

\* The converted value is converted back.
ConvertBack ==
    /\ conv.pc = "mid"
    /\ conv' = [conv EXCEPT !.pc = "done", !.out = ConvBack(conv.kind, conv.mid)]
    /\ UNCHANGED <<obsInit, fromFileLog, lifeVars, wlVars, streamVars, refVars>>

\* Native values that fit the signed range and that do not.
NativeWords == {1, Modulus - 1}

NativeActrId(n) ==
    [realm |-> [realm_id |-> 1], serial_number |-> n,
     type |-> [manufacturer |-> "acme", name |-> "echo"]]

NativeChunk(sid, n) ==
    [stream_id |-> sid, sequence |-> n, payload |-> <<7>>,
     metadata |-> <<[key |-> "k", value |-> "v"]>>,
     timestamp_ms |-> [some |-> FALSE, value |-> 0]]

(***************************************************************************)
(* Stream callbacks: ContextBridge::register_stream / unregister_stream.   *)
(* The registry itself belongs to the runtime.                             *)
(***************************************************************************)
StreamIds == {"s1"}

OpIds == 1..Len(streamOps)

ChunkIds == 1..Len(chunks)

InitStreamVars ==
    /\ registry = [sid \in StreamIds |-> 0]
    /\ streamOps = <<>>
    /\ chunks = <<>>
    /\ cbQueue = <<>>
    /\ cbCalls = <<>>

\* Stream ids with a register or unregister call issued and not completed.
Busy(sid) == \E o \in OpIds : streamOps[o].sid = sid /\ streamOps[o].pc # "done"

\* Chunks in flight for sid see a change of its registration begin.
Disturb(sid) ==
    [c \in ChunkIds |->
        IF chunks[c].sid = sid /\ chunks[c].state = "flight"
        THEN [chunks[c] EXCEPT !.disturbed = TRUE] ELSE chunks[c]]

\* The host calls registerStream(sid, h) or unregisterStream(sid): the
\* future is spawned. A registered handler is named by its call's number.
StreamOpIssue(kind, sid) ==
    /\ Len(streamOps) + Len(chunks) < MaxStreamEvents
    /\ streamOps' = Append(streamOps,
            [kind |-> kind, sid |-> sid, pc |-> "issued", result |-> "none", removed |-> 0])
    /\ chunks' = Disturb(sid)
    /\ UNCHANGED <<registry, cbQueue, cbCalls, lifeVars, wlVars, refVars, auxVars>>

\* The runtime's register_stream: installs the handler for the stream id.
\* On an id that has a handler it either replaces it or rejects the call.
RuntimeRegister(reg, sid, h, replace) ==
    IF reg[sid] # 0 /\ ~replace
    THEN [reg |-> reg, result |-> "Err", removed |-> 0]
    ELSE [reg |-> [reg EXCEPT ![sid] = h], result |-> "Ok", removed |-> reg[sid]]

\* The runtime's unregister_stream: removes the handler of the stream id.
RuntimeUnregister(reg, sid) ==
    [reg |-> [reg EXCEPT ![sid] = 0], result |-> "Ok", removed |-> reg[sid]]

\* Mutant of UnregisterStream: the call is not forwarded to the runtime.
UnregisterStreamDropped(reg, sid) == [reg |-> reg, result |-> "Ok", removed |-> reg[sid]]

\* ContextBridge::unregister_stream: forwards to the runtime's
\* unregister_stream and awaits it.
UnregisterStream(reg, sid) == RuntimeUnregister(reg, sid)

\* ContextBridge::register_stream: wraps the callback in a closure and
\* forwards it to the runtime's register_stream.
RegisterStream(reg, sid, h, replace) == RuntimeRegister(reg, sid, h, replace)

\* The awaited runtime call of operation o takes effect.
StreamOpApply(o, replace) ==
    /\ o \in OpIds
    /\ streamOps[o].pc = "issued"
    /\ LET r == IF streamOps[o].kind = "register"
                THEN RegisterStream(registry, streamOps[o].sid, o, replace)
                ELSE UnregisterStream(registry, streamOps[o].sid) IN
        /\ registry' = r.reg
        /\ streamOps' = [streamOps EXCEPT ![o].pc = "applied", ![o].result = r.result,
                                          ![o].removed = r.removed]
    /\ UNCHANGED <<chunks, cbQueue, cbCalls, lifeVars, wlVars, refVars, auxVars>>

\* The future of operation o completes: the host's promise settles.
StreamOpComplete(o) ==
    /\ o \in OpIds
    /\ streamOps[o].pc = "applied"
    /\ streamOps' = [streamOps EXCEPT ![o].pc = "done"]
    /\ UNCHANGED <<registry, chunks, cbQueue, cbCalls, lifeVars, wlVars, refVars, auxVars>>

\* Handlers whose removal had completed: by an unregister call, or by a
\* register call that replaced them.
Removed == {streamOps[o].removed : o \in {p \in OpIds : streamOps[p].pc = "done"}} \ {0}

\* A peer sends a chunk for sid; the sender numbers its chunks downwards
\* from the largest sequence number. Recorded with it: the handler whose
\* registration was complete and current, and the handlers already removed.
ChunkSend(sid, sender) ==
    /\ Len(streamOps) + Len(chunks) < MaxStreamEvents
    /\ chunks' = Append(chunks,
            [sid |-> sid, native |-> NativeChunk(sid, Modulus - 1 - Len(chunks)), sender |-> NativeActrId(sender),
             state |-> "flight", handler |-> 0, disturbed |-> FALSE,
             regAtSend |-> IF Busy(sid) THEN 0 ELSE registry[sid],
             removedAtSend |-> Removed])
    /\ UNCHANGED <<registry, streamOps, cbQueue, cbCalls, lifeVars, wlVars, refVars, auxVars>>

\* Mutant of StreamCallback: the sender handed to the host is the chunk's
\* sequence number, not the sender's serial number.
StreamCallbackWrongSender(h, c, chunk, sender) ==
    [h |-> h, cid |-> c, chunk |-> DataStreamFrom(chunk),
     sender |-> [ActrIdFrom(sender) EXCEPT !.serialNumber = AsSigned(chunk.sequence)]]

\* The closure register_stream installs: convert the chunk and the sender
\* and call the threadsafe function in NonBlocking mode (its queue has no
\* size limit); the closure returns Ok(()).
StreamCallback(h, c, chunk, sender) ==
    [h |-> h, cid |-> c, chunk |-> DataStreamFrom(chunk), sender |-> ActrIdFrom(sender)]

\* The chunk reaches the runtime, which runs the handler of its stream id,
\* if there is one.
ChunkArrive(c) ==
    /\ c \in ChunkIds
    /\ chunks[c].state = "flight"
    /\ LET h == registry[chunks[c].sid] IN
        IF h = 0
        THEN /\ chunks' = [chunks EXCEPT ![c].state = "dropped"]
             /\ UNCHANGED cbQueue
        ELSE /\ chunks' = [chunks EXCEPT ![c].state = "queued", ![c].handler = h]
             /\ cbQueue' = Append(cbQueue, StreamCallback(h, c, chunks[c].native, chunks[c].sender))
    /\ UNCHANGED <<registry, streamOps, cbCalls, lifeVars, wlVars, refVars, auxVars>>

\* The host thread runs the head of its queue: the handler is invoked.
HostRunStreamCallback ==
    /\ cbQueue # <<>>
    /\ cbCalls' = Append(cbCalls, Head(cbQueue))
    /\ cbQueue' = Tail(cbQueue)
    /\ chunks' = [chunks EXCEPT ![Head(cbQueue).cid].state = "delivered"]
    /\ UNCHANGED <<registry, streamOps, lifeVars, wlVars, refVars, auxVars>>

(***************************************************************************)
(* The Ref of a started node: shutdown, wait_for_shutdown,                 *)
(* is_shutting_down and the other operations. The signal and the drain     *)
(* belong to the runtime.                                                  *)
(***************************************************************************)
WaiterIds == 1..MaxWaiters

RefOpNames == {"actorId", "discover", "call", "tell"}

InitRefVars ==
    /\ shutdownSignal = FALSE
    /\ drained = FALSE
    /\ shutdownCalls = 0
    /\ waiter = [w \in WaiterIds |-> "idle"]
    /\ refOps = 0
    /\ lastOp = [op |-> "none", ok |-> TRUE]
    /\ lastSnap = [calls |-> 0, value |-> FALSE]

\* The runtime's shutdown(): a broadcast signal, set and never cleared.
RuntimeShutdown(signal) == TRUE

\* Mutant of RefShutdown: the call is not forwarded to the runtime.
RefShutdownDropped(signal) == signal

\* ActrRef::shutdown: forwards to the runtime's shutdown().
RefShutdown(signal) == RuntimeShutdown(signal)

\* The host calls shutdown(): a synchronous method on &self returning ().
Shutdown ==
    /\ shutdownCalls < MaxShutdown
    /\ shutdownCalls' = shutdownCalls + 1
    /\ shutdownSignal' = RefShutdown(shutdownSignal)
    /\ UNCHANGED <<drained, waiter, refOps, lastOp, lastSnap, lifeVars, wlVars, streamVars, auxVars>>

\* The runtime completes the drain of the node once shutdown is signalled.
RuntimeDrain ==
    /\ shutdownSignal
    /\ ~drained
    /\ drained' = TRUE
    /\ UNCHANGED <<shutdownSignal, shutdownCalls, waiter, refOps, lastOp, lastSnap,
                   lifeVars, wlVars, streamVars, auxVars>>

\* The host calls waitForShutdown(): the future is spawned.
WaitIssue(w) ==
    /\ waiter[w] = "idle"
    /\ \A v \in WaiterIds : v < w => waiter[v] # "idle"
    /\ waiter' = [waiter EXCEPT ![w] = "waiting"]
    /\ UNCHANGED <<shutdownSignal, drained, shutdownCalls, refOps, lastOp, lastSnap,
                   lifeVars, wlVars, streamVars, auxVars>>

\* Mutant of WaitForShutdownReady: the completion is handed to one caller.
WaitForShutdownReadyOnce(done, others) == done /\ \A v \in DOMAIN others : others[v] # "returned"

\* ActrRef::wait_for_shutdown on &self: awaits the runtime's
\* wait_for_shutdown, which is ready once the drain is complete, whatever
\* the other callers do.
WaitForShutdownReady(done, others) == done

\* The future of waiter w completes.
WaitReturn(w) ==
    /\ waiter[w] = "waiting"
    /\ WaitForShutdownReady(drained, waiter)
    /\ waiter' = [waiter EXCEPT ![w] = "returned"]
    /\ UNCHANGED <<shutdownSignal, drained, shutdownCalls, refOps, lastOp, lastSnap,
                   lifeVars, wlVars, streamVars, auxVars>>

\* ActrRef::is_shutting_down: a snapshot of the runtime's signal.
IsShuttingDown ==
    /\ lastSnap' = [calls |-> shutdownCalls, value |-> shutdownSignal]
    /\ UNCHANGED <<shutdownSignal, drained, shutdownCalls, waiter, refOps, lastOp,
                   lifeVars, wlVars, streamVars, auxVars>>

\* actor_id, discover, call, tell: forwarded to the runtime on &self; the
\* runtime's answer is a success or an error.
RefOp(op, ok) ==
    /\ refOps < MaxRefOps
    /\ op = "actorId" => ok
    /\ refOps' = refOps + 1
    /\ lastOp' = [op |-> op, ok |-> ok]
    /\ UNCHANGED <<shutdownSignal, drained, shutdownCalls, waiter, lastSnap,
                   lifeVars, wlVars, streamVars, auxVars>>

(***************************************************************************)
(* Lifecycle chain: ActrSystem::attach and ActrNode::start.                *)
(***************************************************************************)
StartIds == 1..MaxStart

IdleStart == [pc |-> "idle", saw |-> "None", rt |-> "none", result |-> "none", overlap |-> FALSE]

InitLifecycleVars ==
    /\ sysInner = "Some"
    /\ attachLog = <<>>
    /\ nodeInner = "Absent"
    /\ startCall = [c \in StartIds |-> IdleStart]

\* Mutant of AttachResult: the System handle is read but left in place.
AttachResultNoTake(inner, obj) ==
    IF inner = "None"
    THEN [inner |-> "None", result |-> "AlreadyConsumed", node |-> FALSE]
    ELSE IF DynamicWorkloadNew(obj).ok
         THEN [inner |-> inner, result |-> "Node", node |-> TRUE]
         ELSE [inner |-> inner, result |-> "WorkloadError", node |-> FALSE]

\* Mutant of AttachResult: the workload is built before the handle is taken,
\* so a workload error leaves the handle in place.
AttachResultValidateFirst(inner, obj) ==
    IF inner = "None"
    THEN [inner |-> "None", result |-> "AlreadyConsumed", node |-> FALSE]
    ELSE IF DynamicWorkloadNew(obj).ok
         THEN [inner |-> "None", result |-> "Node", node |-> TRUE]
         ELSE [inner |-> inner, result |-> "WorkloadError", node |-> FALSE]

\* The body of ActrSystem::attach: take() the handle, fail if it was gone,
\* then build the workload (which may fail after the take), then attach.
AttachResult(inner, obj) ==
    IF inner = "None"
    THEN [inner |-> "None", result |-> "AlreadyConsumed", node |-> FALSE]
    ELSE IF DynamicWorkloadNew(obj).ok
         THEN [inner |-> "None", result |-> "Node", node |-> TRUE]
         ELSE [inner |-> "None", result |-> "WorkloadError", node |-> FALSE]

\* attach is a synchronous method run on the host thread: one step.
Attach(obj) ==
    /\ Len(attachLog) < MaxAttach
    /\ LET r == AttachResult(sysInner, obj) IN
        /\ sysInner' = r.inner
        /\ attachLog' = Append(attachLog, [complete |-> Complete(obj), result |-> r.result])
        /\ nodeInner' = IF r.node THEN "Some" ELSE nodeInner
    /\ UNCHANGED <<startCall, wlVars, streamVars, refVars, auxVars>>

\* The host calls node.start(): the future is spawned on the native
\* scheduler and a promise is returned; nothing of the body has run yet.
\* Calls are numbered in order of issue.
StartIssue(c) ==
    /\ nodeInner # "Absent"
    /\ startCall[c].pc = "idle"
    /\ \A b \in StartIds : b < c => startCall[b].pc # "idle"
    /\ LET running == {b \in StartIds : startCall[b].pc \notin {"idle", "done"}} IN
        startCall' = [b \in StartIds |->
            IF b = c THEN [startCall[b] EXCEPT !.pc = "spawned", !.overlap = running # {}]
            ELSE IF b \in running THEN [startCall[b] EXCEPT !.overlap = TRUE]
            ELSE startCall[b]]
    /\ UNCHANGED <<sysInner, attachLog, nodeInner, wlVars, streamVars, refVars, auxVars>>

\* self.inner.take(), first half: the future reads the handle through its
\* unsynchronised &mut reference.
StartTakeRead(c) ==
    /\ startCall[c].pc = "spawned"
    /\ startCall' = [startCall EXCEPT ![c].pc = "read", ![c].saw = nodeInner]
    /\ UNCHANGED <<sysInner, attachLog, nodeInner, wlVars, streamVars, refVars, auxVars>>

\* Mutant of StartAfterTake: a missing handle is not reported.
StartAfterTakeNoCheck(saw) == "awaiting"

\* ok_or_else(..)? after the take: "Node already started" when it was gone.
StartAfterTake(saw) == IF saw = "None" THEN "done" ELSE "awaiting"

\* Mutant of StartTakeWrite: the handle is read but None is not stored.
StartTakeWriteKeeps(c) ==
    /\ startCall[c].pc = "read"
    /\ nodeInner' = nodeInner
    /\ LET next == StartAfterTake(startCall[c].saw) IN
        startCall' = [startCall EXCEPT ![c].pc = next,
            ![c].result = IF next = "done" THEN "AlreadyStarted" ELSE "none"]
    /\ UNCHANGED <<sysInner, attachLog, wlVars, streamVars, refVars, auxVars>>

\* self.inner.take(), second half: None is stored in its place.
StartTakeWrite(c) ==
    /\ startCall[c].pc = "read"
    /\ nodeInner' = "None"
    /\ LET next == StartAfterTake(startCall[c].saw) IN
        startCall' = [startCall EXCEPT ![c].pc = next,
            ![c].result = IF next = "done" THEN "AlreadyStarted" ELSE "none"]
    /\ UNCHANGED <<sysInner, attachLog, wlVars, streamVars, refVars, auxVars>>

\* Mutant of StartRuntime: a failed runtime start puts the handle back.
StartRuntimeRestore(c, ok) ==
    /\ startCall[c].pc = "awaiting"
    /\ startCall' = [startCall EXCEPT ![c].pc = "done",
            ![c].rt = IF ok THEN "ok" ELSE "err",
            ![c].result = IF ok THEN "Ref" ELSE "ProtocolError"]
    /\ nodeInner' = IF ok THEN nodeInner ELSE "Some"
    /\ UNCHANGED <<sysInner, attachLog, wlVars, streamVars, refVars, auxVars>>

\* node.start().await of the runtime: it succeeds or fails; the failure is
\* mapped by protocol_error_to_napi.
StartRuntime(c, ok) ==
    /\ startCall[c].pc = "awaiting"
    /\ startCall' = [startCall EXCEPT ![c].pc = "done",
            ![c].rt = IF ok THEN "ok" ELSE "err",
            ![c].result = IF ok THEN "Ref" ELSE "ProtocolError"]
    /\ UNCHANGED <<sysInner, attachLog, nodeInner, wlVars, streamVars, refVars, auxVars>>

InitAuxVars ==
    /\ obsInit = FALSE
    /\ fromFileLog = <<>>
    /\ conv = NoConv

\* logger::init_observability: the filter and the layers are built, then
\* registry.init() installs the subscriber as the process-global default,
\* and panics when a global default is already set.
InitObservability(installed, tracingEnabled) ==
    IF installed
    THEN [installed |-> TRUE, panicked |-> TRUE]
    ELSE [installed |-> TRUE, panicked |-> FALSE]

\* The body of ActrSystem::from_file: the configuration is parsed (its
\* error returned), observability is initialised, and the runtime's system
\* is created (its error returned).
FromFileResult(installed, configOk, tracingEnabled, runtimeOk) ==
    IF ~configOk
    THEN [installed |-> installed, result |-> "ConfigError"]
    ELSE LET o == InitObservability(installed, tracingEnabled) IN
         IF o.panicked
         THEN [installed |-> o.installed, result |-> "Panic"]
         ELSE [installed |-> o.installed,
               result |-> IF runtimeOk THEN "System" ELSE "ProtocolError"]

\* The host calls System.fromFile(path) and the call runs to its end.
FromFile(configOk, tracingEnabled, runtimeOk) ==
    /\ Len(fromFileLog) < MaxFromFile
    /\ LET r == FromFileResult(obsInit, configOk, tracingEnabled, runtimeOk) IN
        /\ obsInit' = r.installed
        /\ fromFileLog' = Append(fromFileLog,
                [configOk |-> configOk, tracingEnabled |-> tracingEnabled,
                 runtimeOk |-> configOk /\ runtimeOk, result |-> r.result])
    /\ UNCHANGED <<conv, lifeVars, wlVars, streamVars, refVars>>

InitLifecycle == InitLifecycleVars /\ InitWorkloadVars /\ InitStreamVars /\ InitRefVars /\ InitAuxVars

NextLifecycle ==
    \/ \E obj \in HostObjects : Attach(obj)
    \/ \E c \in StartIds : StartIssue(c)
    \/ \E c \in StartIds : StartTakeRead(c)
    \/ \E c \in StartIds : StartTakeWrite(c)
    \/ \E c \in StartIds, ok \in BOOLEAN : StartRuntime(c, ok)

SpecLifecycle == InitLifecycle /\ [][NextLifecycle]_vars

InitWorkload == InitLifecycleVars /\ InitWorkloadVars /\ InitStreamVars /\ InitRefVars /\ InitAuxVars

NextWorkload ==
    \/ \E obj \in HostObjects : New(obj)
    \/ \E kind \in {"onStart", "onStop"}, ctx \in CtxTypes, delivered \in BOOLEAN :
            Lifecycle(kind, ctx, delivered)
    \/ \E d \in DispatchIds, ctx \in CtxTypes, payload \in Payloads, rk \in RouteKeys :
            DispatchBegin(d, ctx, payload, rk)
    \/ \E d \in DispatchIds, text \in Texts : DispatchNotScheduled(d, text)
    \/ HostRunLifecycle
    \/ HostRunDispatch
    \/ \E text \in Texts : HostRunDispatchThrows(text)
    \/ \E d \in DispatchIds, b \in ByteStrings : PromiseResolve(d, b)
    \/ \E d \in DispatchIds, text \in Texts : PromiseReject(d, text)
    \/ \E d \in DispatchIds : DispatchResume(d)

SpecWorkload == InitWorkload /\ [][NextWorkload]_vars

InitStream == InitLifecycleVars /\ InitWorkloadVars /\ InitStreamVars /\ InitRefVars /\ InitAuxVars

NextStream ==
    \/ \E kind \in {"register", "unregister"}, sid \in StreamIds : StreamOpIssue(kind, sid)
    \/ \E o \in 1..MaxStreamEvents, replace \in BOOLEAN : StreamOpApply(o, replace)
    \/ \E o \in 1..MaxStreamEvents : StreamOpComplete(o)
    \/ \E sid \in StreamIds, sender \in NativeWords : ChunkSend(sid, sender)
    \/ \E c \in 1..MaxStreamEvents : ChunkArrive(c)
    \/ HostRunStreamCallback

SpecStream == InitStream /\ [][NextStream]_vars

InitShutdown == InitLifecycleVars /\ InitWorkloadVars /\ InitStreamVars /\ InitRefVars /\ InitAuxVars

NextShutdown ==
    \/ Shutdown
    \/ RuntimeDrain
    \/ \E w \in WaiterIds : WaitIssue(w)
    \/ \E w \in WaiterIds : WaitReturn(w)
    \/ IsShuttingDown
    \/ \E op \in RefOpNames, ok \in BOOLEAN : RefOp(op, ok)

\* The native scheduler polls every task whose awaited future is ready.
SpecShutdown ==
    /\ InitShutdown
    /\ [][NextShutdown]_vars
    /\ \A w \in WaiterIds : WF_vars(WaitReturn(w))

\* A Ref exists once a start call has returned one.
RefExists == \E c \in StartIds : startCall[c].result = "Ref"

\* The operations the host has called so far on the System, the Node and
\* the Ref.
ChainCallsMade ==
    Len(attachLog) + Cardinality({c \in StartIds : startCall[c].pc # "idle"})
        + refOps + shutdownCalls + Cardinality({w \in WaiterIds : waiter[w] # "idle"})

\* The host makes one more call.
ChainCall == ChainCallsMade < MaxChainOps

InitChain == InitLifecycleVars /\ InitWorkloadVars /\ InitStreamVars /\ InitRefVars /\ InitAuxVars

\* The whole chain: attach and start, and the operations of a Ref once a
\* start call has returned it.
NextChain ==
    \/ ChainCall /\ \E obj \in HostObjects : Attach(obj)
    \/ ChainCall /\ \E c \in StartIds : StartIssue(c)
    \/ \E c \in StartIds : StartTakeRead(c)
    \/ \E c \in StartIds : StartTakeWrite(c)
    \/ \E c \in StartIds, ok \in BOOLEAN : StartRuntime(c, ok)
    \/ ChainCall /\ RefExists /\ Shutdown
    \/ RefExists /\ RuntimeDrain
    \/ ChainCall /\ RefExists /\ \E w \in WaiterIds : WaitIssue(w)
    \/ RefExists /\ \E w \in WaiterIds : WaitReturn(w)
    \/ RefExists /\ IsShuttingDown
    \/ ChainCall /\ RefExists /\ \E op \in RefOpNames, ok \in BOOLEAN : RefOp(op, ok)

SpecChain == InitChain /\ [][NextChain]_vars

InitFromFile == InitLifecycleVars /\ InitWorkloadVars /\ InitStreamVars /\ InitRefVars /\ InitAuxVars

NextFromFile ==
    \E configOk \in BOOLEAN, tracingEnabled \in BOOLEAN, runtimeOk \in BOOLEAN :
        FromFile(configOk, tracingEnabled, runtimeOk)

SpecFromFile == InitFromFile /\ [][NextFromFile]_vars

InitConvert == InitLifecycleVars /\ InitWorkloadVars /\ InitStreamVars /\ InitRefVars /\ InitAuxVars

NextConvert ==
    \/ \E kind \in ConvKinds : \E v \in ConvInputs(kind) : ConvertInput(kind, v)
    \/ ConvertForth
    \/ ConvertBack

SpecConvert == InitConvert /\ [][NextConvert]_vars

(***************************************************************************)
(* Claims about the lifecycle chain.                                       *)
(***************************************************************************)
AttachCalls == 1..Len(attachLog)

\* A start call that ran alone: no other start call was in progress at any
\* time between its issue and its completion.
Sequenced(c) == startCall[c].pc = "done" /\ ~startCall[c].overlap

\* C1 as stated: the first attach call on a System returns a Node and every
\* later call fails with "already consumed".
C1_Original ==
    \A i \in AttachCalls :
        attachLog[i].result = IF i = 1 THEN "Node" ELSE "AlreadyConsumed"

\* C1 amended: attach succeeds at most once. The first attach call returns a
\* Node when its workload object has callable onStart, onStop and dispatch,
\* and fails with the workload error otherwise; every later call fails with
\* "already consumed" and returns no Node.
C1_AttachAtMostOnce ==
    \A i \in AttachCalls :
        attachLog[i].result =
            IF i > 1 THEN "AlreadyConsumed"
            ELSE IF attachLog[i].complete THEN "Node" ELSE "WorkloadError"

C1_Witness ==
    /\ Len(attachLog) >= 2
    /\ attachLog[1].result = "WorkloadError"
    /\ attachLog[2].complete
    /\ attachLog[2].result = "AlreadyConsumed"

\* C2 as stated: the first start call on a Node returns a Ref and every
\* later call fails with "already started" (calls made one after another).
C2_Original ==
    \A c \in StartIds :
        Sequenced(c) => startCall[c].result = IF c = 1 THEN "Ref" ELSE "AlreadyStarted"

\* C2 amended: over start calls made one after another, start succeeds at
\* most once. The first call returns a Ref when the runtime's start succeeds
\* and fails with a protocol error when it fails; every later call fails
\* with "already started" and returns no Ref.
C2_StartAtMostOnce ==
    \A c \in StartIds :
        Sequenced(c) =>
            IF c > 1 THEN startCall[c].result = "AlreadyStarted"
            ELSE \/ startCall[c].rt = "ok" /\ startCall[c].result = "Ref"
                 \/ startCall[c].rt = "err" /\ startCall[c].result = "ProtocolError"

C2_Witness ==
    /\ Sequenced(1) /\ startCall[1].result = "ProtocolError"
    /\ Sequenced(2) /\ startCall[2].result = "AlreadyStarted"

\* C3: consumption is atomic: of the attach calls on a System, and of the
\* start calls on a Node, at most one ever succeeds, whatever the
\* interleaving of concurrently issued calls.
C3_AtomicConsumption ==
    /\ Cardinality({i \in AttachCalls : attachLog[i].result = "Node"}) <= 1
    /\ Cardinality({c \in StartIds : startCall[c].result = "Ref"}) <= 1

\* C16: the lifecycle chain is linear: a Node exists only when its System
\* is consumed and a Ref only when its Node is consumed; a consumed System
\* or Node never becomes usable again; a Ref, once returned, stays, and no
\* step of a Ref operation changes the state of the System or the Node.
C16_LinearChain ==
    /\ [](nodeInner # "Absent" => sysInner = "None")
    /\ [](RefExists => nodeInner = "None")
    /\ [][/\ sysInner = "None" => sysInner' = "None"
          /\ nodeInner = "None" => nodeInner' = "None"
          /\ nodeInner # "Absent" => nodeInner' # "Absent"
          /\ RefExists => RefExists'
          /\ refVars' # refVars => lifeVars' = lifeVars]_vars

C16_Witness ==
    /\ RefExists
    /\ sysInner = "None"
    /\ nodeInner = "None"
    /\ lastOp.op = "call"
    /\ shutdownCalls >= 1
    /\ lastSnap.calls >= 1
    /\ \E w \in WaiterIds : waiter[w] # "idle"

\* C17 as stated: an attach that fails on the workload object leaves the
\* System as it was, so that the next attach with a complete workload object
\* returns a Node.
C17_Original ==
    /\ (attachLog # <<>> /\ \A i \in AttachCalls : attachLog[i].result = "WorkloadError")
            => sysInner = "Some"
    /\ \A j \in AttachCalls :
        (/\ j > 1
         /\ \A i \in 1..(j - 1) : attachLog[i].result = "WorkloadError"
         /\ attachLog[j].complete) => attachLog[j].result = "Node"

\* C17 amended: an attach that fails on the workload object consumes the
\* System all the same: the handle is gone, no Node was produced, and every
\* later attach on that System, also one with a complete workload object,
\* fails with "already consumed".
C17_FailedAttachConsumes ==
    \A i \in AttachCalls :
        attachLog[i].result = "WorkloadError" =>
            /\ ~attachLog[i].complete
            /\ sysInner = "None"
            /\ nodeInner = "Absent"
            /\ \A j \in AttachCalls : j > i => attachLog[j].result = "AlreadyConsumed"

C17_Witness ==
    /\ Len(attachLog) = 3
    /\ attachLog[1].result = "WorkloadError"
    /\ attachLog[2].complete /\ attachLog[2].result = "AlreadyConsumed"
    /\ ~attachLog[3].complete /\ attachLog[3].result = "AlreadyConsumed"
    /\ nodeInner = "Absent"

\* A start call that was issued after call c had returned.
After(c, e) == e > c /\ Sequenced(e) /\ startCall[c].pc = "done"

\* C18 as stated: a start that fails in the runtime's start leaves the Node
\* as it was, so that a later start is attempted again and is not rejected
\* with "already started".
C18_Original ==
    \A c \in StartIds :
        (Sequenced(c) /\ startCall[c].result = "ProtocolError") =>
            /\ (\A e \in StartIds : startCall[e].pc \in {"idle", "done"}
                                    /\ startCall[e].result # "Ref") => nodeInner = "Some"
            /\ \A e \in StartIds :
                (After(c, e) /\ \A b \in StartIds : startCall[b].result # "Ref")
                    => startCall[e].result # "AlreadyStarted"

\* C18 amended: a start that fails in the runtime's start consumes the Node
\* all the same: the handle is gone, and every start made after the failed
\* one returned is rejected with "already started" without the runtime's
\* start being attempted again.
C18_FailedStartConsumes ==
    \A c \in StartIds :
        (Sequenced(c) /\ startCall[c].result = "ProtocolError") =>
            /\ startCall[c].rt = "err"
            /\ nodeInner = "None"
            /\ \A e \in StartIds : After(c, e) =>
                /\ startCall[e].result = "AlreadyStarted"
                /\ startCall[e].rt = "none"

C18_Witness ==
    /\ Sequenced(1) /\ startCall[1].result = "ProtocolError"
    /\ Sequenced(2) /\ startCall[2].result = "AlreadyStarted" /\ startCall[2].rt = "none"
    /\ Sequenced(3) /\ startCall[3].result = "AlreadyStarted" /\ startCall[3].rt = "none"

\* C19: System.fromFile can be called any number of times in a process:
\* every call, also a second or later one and one that follows a failed
\* call, returns a System or fails with a configuration or protocol error.
C19_FromFileRepeatable ==
    \A i \in 1..Len(fromFileLog) :
        fromFileLog[i].result \in {"System", "ConfigError", "ProtocolError"}

(***************************************************************************)
(* Claims about the workload adapter, the dispatcher and the context.      *)
(***************************************************************************)
Range(q) == {q[i] : i \in 1..Len(q)}

NeverInvoked == invoked = [onStart |-> 0, onStop |-> 0, dispatch |-> 0]

\* C4: constructing the adapter from a host object in which onStart, onStop
\* or dispatch is missing or not callable fails, yields no adapter, and no
\* entry point is ever invoked; constructing from an object with all three
\* callable succeeds, and no entry point has been invoked when it returns.
C4_FailFastConstruction ==
    /\ newResult = "pending" => NeverInvoked /\ adapter = "NoAdapter"
    /\ newResult # "pending" => (newResult = "Ok" <=> Complete(hostObj))
    /\ newResult = "Err" => adapter = "NoAdapter" /\ NeverInvoked /\ hostQueue = <<>>
    /\ newResult = "Ok" => adapter = "Adapter"
    /\ newResult = "Ok" /\ OpsMade = 0 => NeverInvoked /\ hostQueue = <<>>

C4_Witness ==
    /\ newResult = "Err"
    /\ hostObj.onStart = "callable"
    /\ hostObj.onStop = "callable"
    /\ hostObj.dispatch = "notCallable"

\* C5: a dispatch that reached the host ends in the outcome the host
\* decided: the bytes of the resolved promise, unchanged, or a
\* SerializationError protocol error whose message contains the text of the
\* rejection or of the failure to run the call; it has no result before.
C5_DispatchOutcome ==
    \A d \in DispatchIds :
        /\ disp[d].pc # "done" => disp[d].result = NoResult
        /\ (disp[d].pc = "done" /\ disp[d].cast) =>
            \/ /\ disp[d].callError.status = "none"
               /\ disp[d].promise.state = "resolved"
               /\ disp[d].result = OkResult(disp[d].promise.bytes)
            \/ /\ disp[d].callError.status = "none"
               /\ disp[d].promise.state = "rejected"
               /\ disp[d].result.kind = "err"
               /\ disp[d].result.variant = "SerializationError"
               /\ disp[d].promise.error.reason \in Range(disp[d].result.msg)
            \/ /\ disp[d].callError.status # "none"
               /\ disp[d].promise.state = "none"
               /\ disp[d].result.kind = "err"
               /\ disp[d].result.variant = "SerializationError"
               /\ disp[d].callError.reason \in Range(disp[d].result.msg)

C5_Witness ==
    \E d, e \in DispatchIds :
        /\ disp[d].pc = "done" /\ disp[d].promise.state = "rejected"
        /\ disp[d].promise.error.reason = "boom" /\ disp[d].result.kind = "err"
        /\ disp[e].pc = "done" /\ disp[e].promise.state = "resolved"
        /\ disp[e].result = OkResult(<<7>>)

\* C6: deriving the context surface checks the identity first: for a context
\* that is not RuntimeContext the derivation returns the type-mismatch error,
\* the cast is not reached and the host is not asked; the cast is reached
\* only for a RuntimeContext.
C6_IdentityCheckFirst ==
    /\ \A d \in DispatchIds : disp[d].pc # "idle" =>
        /\ disp[d].cast <=> disp[d].ctx = "RuntimeContext"
        /\ disp[d].ctx # "RuntimeContext" =>
            /\ disp[d].pc = "done"
            /\ disp[d].result.kind = "err"
            /\ disp[d].result.variant = "InvalidStateTransition"
            /\ disp[d].ctx \in Range(disp[d].result.msg)
            /\ disp[d].hostEnv = NoEnvelope
    /\ \A i \in 1..Len(lifeLog) :
        /\ lifeLog[i].cast <=> lifeLog[i].ctx = "RuntimeContext"
        /\ lifeLog[i].ctx # "RuntimeContext" =>
            /\ lifeLog[i].result.kind = "err"
            /\ lifeLog[i].result.variant = "InvalidStateTransition"
            /\ ~lifeLog[i].delivered

C6_Witness ==
    /\ \E d \in DispatchIds : disp[d].pc = "done" /\ disp[d].ctx = "OtherContext"
    /\ \E i \in 1..Len(lifeLog) : lifeLog[i].ctx = "OtherContext"

\* The lifecycle calls of the given kind that derived their context.
Derived(kind) ==
    {i \in 1..Len(lifeLog) : lifeLog[i].kind = kind /\ TryFromContext(lifeLog[i].ctx).ok}

\* The invocations of the given function waiting on the host's queue.
Queued(fn) == {i \in 1..Len(hostQueue) : hostQueue[i].fn = fn}

\* C12: a lifecycle call whose host invocation could not be delivered to
\* the host reports a failure to the runtime: no onStart or onStop that
\* derived its context and was not delivered returns success.
C12_NoSilentDefault ==
    \A i \in 1..Len(lifeLog) :
        (lifeLog[i].cast /\ ~lifeLog[i].delivered) => lifeLog[i].result.kind = "err"

\* C13: onStart and onStop return to the runtime only once their host
\* invocation has been accepted by the host queue: every lifecycle call that
\* returned success has its invocation on the queue or already run by the
\* host (the call does not wait for the host to run it).
C13_ReturnAfterHandoff ==
    \A kind \in {"onStart", "onStop"} :
        Cardinality({i \in 1..Len(lifeLog) :
                        lifeLog[i].kind = kind /\ lifeLog[i].result.kind = "ok"})
            = invoked[kind] + Cardinality(Queued(kind))

\* C14: when the derivation of the context surface fails in onStart, onStop
\* or dispatch, the operation returns the derivation's error and nothing is
\* queued for the host for that event: the host's entry point runs only for
\* events whose context was derived.
C14_DerivationShortCircuit ==
    /\ \A i \in 1..Len(lifeLog) : ~TryFromContext(lifeLog[i].ctx).ok =>
        /\ lifeLog[i].result = TryFromContext(lifeLog[i].ctx).err
        /\ [fn |-> lifeLog[i].kind, id |-> i] \notin Range(hostQueue)
    /\ \A d \in DispatchIds : (disp[d].pc # "idle" /\ ~TryFromContext(disp[d].ctx).ok) =>
        /\ disp[d].pc = "done"
        /\ disp[d].result = TryFromContext(disp[d].ctx).err
        /\ [fn |-> "dispatch", id |-> d] \notin Range(hostQueue)
        /\ disp[d].promise = NoPromise
    /\ \A kind \in {"onStart", "onStop"} :
        invoked[kind] + Cardinality(Queued(kind)) <= Cardinality(Derived(kind))
    /\ invoked.dispatch + Cardinality(Queued("dispatch"))
            <= Cardinality({d \in DispatchIds : disp[d].pc # "idle" /\ TryFromContext(disp[d].ctx).ok})

C14_Witness ==
    /\ Len(lifeLog) = 1
    /\ lifeLog[1].kind = "onStop"
    /\ lifeLog[1].ctx = "OtherContext"
    /\ lifeLog[1].result.variant = "InvalidStateTransition"
    /\ disp[1].pc = "done"
    /\ disp[1].ctx = "OtherContext"
    /\ NeverInvoked

\* C15: dispatches do not wait for each other: the host's dispatch can be
\* entered for the call at the head of the queue whatever promises are
\* unsettled, each unsettled promise can be settled and each settled one
\* resumed whatever the state of the others, and a dispatch was run with
\* its own envelope and returns the settlement of its own promise.
C15_DispatchesIndependent ==
    /\ (hostQueue # <<>> /\ Head(hostQueue).fn = "dispatch") => ENABLED HostRunDispatch
    /\ \A d \in DispatchIds :
        /\ disp[d].promise.state = "pending" =>
            /\ ENABLED PromiseResolve(d, <<>>)
            /\ ENABLED PromiseReject(d, "boom")
        /\ (disp[d].pc = "promised" /\ disp[d].promise.state # "pending") =>
            ENABLED DispatchResume(d)
        /\ disp[d].pc \in {"promised", "callFailed"} =>
            disp[d].hostEnv.requestId \in {RequestIds[d], <<>>}
        /\ disp[d].pc = "promised" => disp[d].hostEnv.requestId = RequestIds[d]
        /\ (disp[d].pc = "done" /\ disp[d].cast) =>
            disp[d].result = DispatchOutcome(disp[d].callError.status # "none",
                                             disp[d].callError, disp[d].promise)

C15_Witness ==
    /\ disp[1].pc = "promised"
    /\ disp[1].promise.state = "pending"
    /\ disp[2].pc = "done"
    /\ disp[2].promise.state = "resolved"
    /\ disp[2].result = OkResult(<<7>>)
    /\ invoked.dispatch = 2

\* The dispatches whose envelope the host's dispatch has received.
Received == {d \in DispatchIds : disp[d].hostEnv # NoEnvelope}

\* C21: the envelope the host's dispatch receives has the routeKey and the
\* requestId of the inbound envelope, and its payload bytes when it has a
\* payload; for an inbound envelope without payload the host receives the
\* empty byte sequence, the same as for a present empty payload.
C21_EnvelopeFidelity ==
    /\ \A d \in Received :
        /\ disp[d].hostEnv.routeKey = disp[d].inbound.route_key
        /\ disp[d].hostEnv.requestId = disp[d].inbound.request_id
        /\ disp[d].inbound.payload.some =>
                disp[d].hostEnv.payload = disp[d].inbound.payload.bytes
        /\ ~disp[d].inbound.payload.some => disp[d].hostEnv.payload = <<>>
    /\ \A d, e \in Received :
        (/\ ~disp[d].inbound.payload.some
         /\ disp[e].inbound.payload = [some |-> TRUE, bytes |-> <<>>])
            => disp[d].hostEnv.payload = disp[e].hostEnv.payload

C21_Witness ==
    /\ Received = {1, 2}
    /\ ~disp[1].inbound.payload.some
    /\ disp[2].inbound.payload = [some |-> TRUE, bytes |-> <<>>]
    /\ disp[1].hostEnv.payload = <<>>
    /\ disp[2].hostEnv.payload = <<>>
    /\ disp[1].hostEnv.requestId # disp[2].hostEnv.requestId

C9_ShutdownIdempotent ==
    /\ [](shutdownCalls >= 1 => shutdownSignal)
    /\ [](lastSnap.calls >= 1 => lastSnap.value)
    /\ [](shutdownCalls < MaxShutdown => ENABLED Shutdown)
    /\ [][shutdownSignal => shutdownSignal']_vars
    /\ [][(shutdownCalls >= 1 /\ shutdownCalls' = shutdownCalls + 1) =>
            UNCHANGED <<shutdownSignal, drained, waiter, lastSnap>>]_vars

C9_Witness ==
    /\ shutdownCalls >= 2
    /\ refOps >= 1
    /\ lastSnap = [calls |-> 2, value |-> TRUE]

\* C10: every waitForShutdown call that is pending when shutdown has been
\* signalled and the drain is complete eventually returns, whether or not
\* other callers are waiting or have returned.
C10_WaitersAllReturn ==
    \A w \in WaiterIds :
        (waiter[w] = "waiting" /\ shutdownSignal /\ drained) ~> (waiter[w] = "returned")

C10_Witness ==
    \E w, v \in WaiterIds :
        /\ w # v
        /\ waiter[w] = "returned"
        /\ waiter[v] = "waiting"
        /\ shutdownSignal /\ drained

(***************************************************************************)
(* Claims about the identifier and payload conversions.                    *)
(***************************************************************************)
\* C11: an ActrId whose native serial number is at most the largest signed
\* value crosses the boundary with that same number as its signed serial,
\* and converting it back yields an ActrId equal to the original in realm,
\* serial number and type.
C11_ActrIdRoundTrip ==
    (conv.kind = "ActrIdNative" /\ conv.in.serial_number <= MaxSigned) =>
        /\ conv.pc \in {"mid", "done"} =>
            /\ conv.mid.serialNumber = conv.in.serial_number
            /\ conv.mid.realm.realmId = conv.in.realm.realm_id
            /\ conv.mid.type = conv.in.type
        /\ conv.pc = "done" =>
            /\ conv.out.realm = conv.in.realm
            /\ conv.out.serial_number = conv.in.serial_number
            /\ conv.out.type = conv.in.type
            /\ conv.out = conv.in

C11_Witness ==
    /\ conv.pc = "done"
    /\ conv.kind = "ActrIdNative"
    /\ conv.in.serial_number = MaxSigned
    /\ conv.in.realm.realm_id = 7

\* The word of a converted value: serial number or sequence number.
WordOf(kind, v) ==
    CASE kind = "ActrIdNative" -> v.serial_number
      [] kind = "ActrIdBoundary" -> v.serialNumber
      [] kind = "DataStreamNative" -> v.sequence
      [] kind = "DataStreamBoundary" -> v.sequence

OtherSide(kind) ==
    CASE kind = "ActrIdNative" -> "ActrIdBoundary"
      [] kind = "ActrIdBoundary" -> "ActrIdNative"
      [] kind = "DataStreamNative" -> "DataStreamBoundary"
      [] kind = "DataStreamBoundary" -> "DataStreamNative"

IsNativeKind(kind) == kind \in {"ActrIdNative", "DataStreamNative"}

\* C20: serial and sequence numbers cross the boundary by reinterpretation
\* modulo the word size, and every conversion yields a value: a native n
\* above the largest signed value appears as n minus the modulus, a negative
\* boundary value v becomes v plus the modulus, and native -> boundary ->
\* native and boundary -> native -> boundary both give back the input, over
\* the whole range of the word.
C20_Reinterpretation ==
    /\ conv.pc = "input" => ENABLED ConvertForth
    /\ conv.pc = "mid" => ENABLED ConvertBack
    /\ conv.pc \in {"mid", "done"} =>
        LET n == WordOf(conv.kind, conv.in)
            m == WordOf(OtherSide(conv.kind), conv.mid) IN
            IF IsNativeKind(conv.kind)
            THEN /\ m \in SignedWords
                 /\ m = IF n > MaxSigned THEN n - Modulus ELSE n
            ELSE /\ m \in UnsignedWords
                 /\ m = IF n < 0 THEN n + Modulus ELSE n
    /\ conv.pc = "done" => conv.out = conv.in

C20_Witness ==
    /\ conv.pc = "done"
    /\ conv.kind = "DataStreamNative"
    /\ conv.in.sequence = Modulus - 1
    /\ conv.mid.sequence = 0 - 1
    /\ conv.out.sequence = Modulus - 1

====
